---- MODULE Spec2Model ----
(***************************************************************************)
(* Retail sales dashboard (src/app.py): a Streamlit script.  Every widget  *)
(* interaction of a browser session reruns the script top to bottom:       *)
(* load_data() (memoized by st.cache_data), the sidebar filter, then the   *)
(* KPI cards and charts of the tabs.  One action per script section; a     *)
(* session's position in the script is pc[s].                              *)
(*                                                                         *)
(* Conventions.  Dates are day numbers counted from 2010-01-01 (day 0).    *)
(* Weekly_Sales, Fuel_Price and Temperature are integers (floating point   *)
(* rounding is not modelled).  An optional number is a sequence: <<>> is   *)
(* NaN / None, <<v>> is the number v, and <<n, d>> with d > 0 is the       *)
(* quotient n / d (a mean or a ratio, kept exact).                         *)
(***************************************************************************)
EXTENDS Integers, Sequences, FiniteSets, TLC

\* ------------------------------------------------------------------ bounds
MaxReads == 3

\* ----------------------------------------------------------------- helpers
RECURSIVE SumSeq(_)
SumSeq(q) == IF q = <<>> THEN 0 ELSE Head(q) + SumSeq(Tail(q))

Range(q) == {q[i] : i \in DOMAIN q}

Column(rows, c) == [i \in DOMAIN rows |-> rows[i][c]]

SetMin(S) == CHOOSE x \in S : \A y \in S : x <= y
SetMax(S) == CHOOSE x \in S : \A y \in S : x >= y

\* Sequences over U of length 0..n.
SeqsUpTo(U, n) == UNION {[1..k -> U] : k \in 0..n}

NaN == <<>>
IsNaN(x) == x = <<>>

\* ------------------------------------------------------------ the database
\* The columns of merged_data.csv that the modelled sections read.
BaseColumns ==
    {"Date", "Store", "Dept", "Weekly_Sales", "IsHoliday_x", "IsSuperBowl",
     "IsLaborDay", "IsThanksgiving", "IsChristmas", "Fuel_Price",
     "Temperature", "Month_Name"}

Row(date, store, dept, sales, hol, sb, ld, tg, xm, fuel, temp, month) ==
    [Date |-> date, Store |-> store, Dept |-> dept, Weekly_Sales |-> sales,
     IsHoliday_x |-> hol, IsSuperBowl |-> sb, IsLaborDay |-> ld,
     IsThanksgiving |-> tg, IsChristmas |-> xm, Fuel_Price |-> fuel,
     Temperature |-> temp, Month_Name |-> month]

\* pd.read_csv: a frame holding the file's rows and columns, no derived column.
Frame(rows) ==
    [rows |-> rows, cols |-> BaseColumns, Fuel_Bin |-> <<>>, Temp_Bin |-> <<>>]

Sessions == {"s1", "s2"}
NoSession == "none"
Absent == [absent |-> TRUE]
Unbound == [unbound |-> TRUE]
NoOutput == [kind |-> "none", name |-> "none"]

VARIABLES
    file,            \* the rows of merged_data.csv (never written by the program)
    cache,           \* st.cache_data's entry for load_data(): Absent or a frame
    lock,            \* holder of the entry's compute lock, or NoSession
    fileReads,       \* how many times pd.read_csv opened the file
    buf,             \* buf[s]: rows read_csv has parsed so far in session s
    pc,              \* pc[s]: the script section session s runs next
    df,              \* df[s]: the session's global df
    date_range,      \* date_range[s]: the sidebar's date_input value
    holiday_filter,  \* holiday_filter[s]: the sidebar's selectbox value
    df_filtered,     \* df_filtered[s]: the global df_filtered
    out              \* out[s]: the element the session rendered last

vars == <<file, cache, lock, fileReads, buf, pc, df, date_range,
          holiday_filter, df_filtered, out>>

\* ---------------------------------------------------- load_data (cached)
\* st.cache_data hands every caller its own deserialized copy of the entry.
CacheRead(entry) == entry

\* First lookup of load_data()'s entry, outside the lock.
LoadLookup(s) ==
    /\ pc[s] = "load"
    /\ IF cache # Absent
       THEN /\ df' = [df EXCEPT ![s] = CacheRead(cache)]
            /\ pc' = [pc EXCEPT ![s] = "sidebar"]
       ELSE /\ pc' = [pc EXCEPT ![s] = "wait"]
            /\ UNCHANGED df
    /\ UNCHANGED <<file, cache, lock, fileReads, buf, date_range,
                   holiday_filter, df_filtered, out>>

\* A miss: take the entry's compute lock.
LoadAcquire(s) ==
    /\ pc[s] = "wait"
    /\ lock = NoSession
    /\ lock' = s
    /\ pc' = [pc EXCEPT ![s] = "locked"]
    /\ UNCHANGED <<file, cache, fileReads, buf, df, date_range,
                   holiday_filter, df_filtered, out>>

\* The function body run as soon as the lock is held, without a second lookup.
RecheckSkipped(entry) == FALSE

\* Under the lock the entry is looked up again before the function body runs.
RecheckHit(entry) == entry # Absent

LoadRecheck(s) ==
    /\ pc[s] = "locked"
    /\ IF RecheckHit(cache)
       THEN /\ df' = [df EXCEPT ![s] = CacheRead(cache)]
            /\ lock' = NoSession
            /\ pc' = [pc EXCEPT ![s] = "sidebar"]
            /\ UNCHANGED <<fileReads, buf>>
       ELSE /\ fileReads < MaxReads
            /\ fileReads' = fileReads + 1
            /\ buf' = [buf EXCEPT ![s] = <<>>]
            /\ pc' = [pc EXCEPT ![s] = "reading"]
            /\ UNCHANGED <<df, lock>>
    /\ UNCHANGED <<file, cache, date_range, holiday_filter, df_filtered, out>>

\* pd.read_csv parses the file row by row into a frame of its own.
ReadRow(s) ==
    /\ pc[s] = "reading"
    /\ Len(buf[s]) < Len(file)
    /\ buf' = [buf EXCEPT ![s] = Append(@, file[Len(@) + 1])]
    /\ UNCHANGED <<file, cache, lock, fileReads, pc, df, date_range,
                   holiday_filter, df_filtered, out>>

\* read_csv returned: the value is stored in the entry, the lock released and
\* the value returned to the caller (df = load_data()).
LoadStore(s) ==
    /\ pc[s] = "reading"
    /\ Len(buf[s]) = Len(file)
    /\ cache' = Frame(buf[s])
    /\ df' = [df EXCEPT ![s] = Frame(buf[s])]
    /\ lock' = NoSession
    /\ buf' = [buf EXCEPT ![s] = <<>>]
    /\ pc' = [pc EXCEPT ![s] = "sidebar"]
    /\ UNCHANGED <<file, fileReads, date_range, holiday_filter, df_filtered, out>>

\* ------------------------------------------------------- sidebar filter
\* The dates of the filtering data set.
FilterDates == {1, 2}

HolidayModes == {"All", "Yes", "No"}

RowDates(rows) == {rows[i].Date : i \in DOMAIN rows}

\* st.sidebar.date_input bounded by min_value / max_value: a start and an end,
\* start <= end, each one of the dates of the table.
UIRanges(rows) ==
    {dr \in RowDates(rows) \X RowDates(rows) : dr[1] <= dr[2]}

\* The date mask with the end date excluded.
DateMaskOpenEnd(rows, dr) ==
    SelectSeq(rows, LAMBDA r : r.Date >= dr[1] /\ r.Date < dr[2])

DateMask(rows, dr) ==
    SelectSeq(rows, LAMBDA r : r.Date >= dr[1] /\ r.Date <= dr[2])

HolidayMask(rows, hf) ==
    IF hf = "Yes" THEN SelectSeq(rows, LAMBDA r : r.IsHoliday_x = TRUE)
    ELSE IF hf = "No" THEN SelectSeq(rows, LAMBDA r : r.IsHoliday_x = FALSE)
    ELSE rows

SidebarFilter(rows, dr, hf) == HolidayMask(DateMask(rows, dr), hf)

Sidebar(s, ranges) ==
    /\ pc[s] = "sidebar"
    /\ \E dr \in ranges, hf \in HolidayModes :
          /\ date_range' = [date_range EXCEPT ![s] = dr]
          /\ holiday_filter' = [holiday_filter EXCEPT ![s] = hf]
          /\ df_filtered' = [df_filtered EXCEPT ![s] = SidebarFilter(df[s].rows, dr, hf)]
    /\ pc' = [pc EXCEPT ![s] = "kpi"]
    /\ UNCHANGED <<file, cache, lock, fileReads, buf, df, out>>

SidebarUI(s) == Sidebar(s, UIRanges(df[s].rows))

\* Any start and end among the dates of the data set, in either order.
AnyRanges == FilterDates \X FilterDates

SidebarAny(s) == Sidebar(s, AnyRanges)

\* ------------------------------------------------------------- KPI cards
SeriesSum(q) == <<SumSeq(q)>>
SeriesMean(q) == IF q = <<>> THEN NaN ELSE <<SumSeq(q), Len(q)>>
SeriesMax(q) == IF q = <<>> THEN NaN ELSE <<SetMax(Range(q))>>

\* f"${x:,.2f}": the text "$nan" for NaN, else "$" and the number.
Money(x) == IF IsNaN(x) THEN [text |-> "$nan"] ELSE [text |-> "$", number |-> x]

KpiCards(s) ==
    /\ pc[s] = "kpi"
    /\ LET sales == Column(df_filtered[s], "Weekly_Sales") IN
       out' = [out EXCEPT ![s] =
                 [kind |-> "stat_cards", name |-> "kpi", view |-> df_filtered[s],
                  total_sales |-> Money(SeriesSum(sales)),
                  avg_sales |-> Money(SeriesMean(sales)),
                  max_sales |-> Money(SeriesMax(sales))]]
    /\ pc' = [pc EXCEPT ![s] = "weekly"]
    /\ UNCHANGED <<file, cache, lock, fileReads, buf, df, date_range,
                   holiday_filter, df_filtered>>

\* ------------------------------------------- tab 1: weekly sales over time
\* options=sorted(df['Store'].unique()), options=sorted(df['Dept'].unique())
\* st.selectbox returns None when it has no option; None equals no store.
NoSelection == 0
Selectable(options) == IF options = {} THEN {NoSelection} ELSE options
StoreOptions(rows) == Selectable({rows[i].Store : i \in DOMAIN rows})
DeptOptions(rows) == Selectable({rows[i].Dept : i \in DOMAIN rows})

ChartMask(rows, store, dept, dr) ==
    SelectSeq(rows, LAMBDA r : /\ r.Store = store
                               /\ r.Dept = dept
                               /\ r.Date >= dr[1]
                               /\ r.Date <= dr[2])

ChartFilter(rows, store, dept, dr, hf) ==
    HolidayMask(ChartMask(rows, store, dept, dr), hf)

\* fig_weekly is drawn from df_chart_filtered (px.line orders it by Date).
WeeklyChart(s) ==
    /\ pc[s] = "weekly"
    /\ \E store \in StoreOptions(df[s].rows), dept \in DeptOptions(df[s].rows) :
          out' = [out EXCEPT ![s] =
                    [kind |-> "chart", name |-> "fig_weekly",
                     store |-> store, dept |-> dept,
                     view |-> ChartFilter(df[s].rows, store, dept,
                                          date_range[s], holiday_filter[s])]]
    /\ pc' = [pc EXCEPT ![s] = "monthly"]
    /\ UNCHANGED <<file, cache, lock, fileReads, buf, df, date_range,
                   holiday_filter, df_filtered>>

\* --------------------------------------------- total sales by month name
monthly_order ==
    <<"January", "February", "March", "April", "May", "June",
      "July", "August", "September", "October", "November", "December">>

\* groupby(key)['Weekly_Sales'].sum(): one entry per key value that occurs.
GroupBySum(rows, key) ==
    [k \in {rows[i][key] : i \in DOMAIN rows} |->
        SumSeq(Column(SelectSeq(rows, LAMBDA r : r[key] = k), "Weekly_Sales"))]

\* The series in the given order without the labels it lacks.
ReindexPresent(series, order) ==
    SelectSeq([i \in DOMAIN order |->
                  [Month |-> order[i],
                   Sales |-> IF order[i] \in DOMAIN series THEN <<series[order[i]]>> ELSE NaN]],
              LAMBDA e : ~IsNaN(e.Sales))

\* .reindex(order): one entry per label of order, NaN where the series has none.
Reindex(series, order) ==
    [i \in DOMAIN order |->
        [Month |-> order[i],
         Sales |-> IF order[i] \in DOMAIN series THEN <<series[order[i]]>> ELSE NaN]]

MonthlySales(rows) == Reindex(GroupBySum(rows, "Month_Name"), monthly_order)

\* Tab 1: monthly_sales of df_filtered.
MonthlyChart(s) ==
    /\ pc[s] = "monthly"
    /\ out' = [out EXCEPT ![s] =
                 [kind |-> "chart", name |-> "fig_monthly",
                  view |-> df_filtered[s],
                  monthly_sales |-> MonthlySales(df_filtered[s])]]
    /\ pc' = [pc EXCEPT ![s] = "trend"]
    /\ UNCHANGED <<file, cache, lock, fileReads, buf, df, date_range,
                   holiday_filter, df_filtered>>

\* Tab 2: monthly_sales of the whole df.
MonthlyTrend(s) ==
    /\ pc[s] = "trend"
    /\ out' = [out EXCEPT ![s] =
                 [kind |-> "chart", name |-> "fig_monthly_trend",
                  view |-> df[s].rows,
                  monthly_sales |-> MonthlySales(df[s].rows)]]
    /\ pc' = [pc EXCEPT ![s] = "top"]
    /\ UNCHANGED <<file, cache, lock, fileReads, buf, df, date_range,
                   holiday_filter, df_filtered>>

\* ------------------------------------------- tab 2: top departments
\* st.slider(..., 5, 20, 10)
TopMin == 5
TopMax == 20
TopDefault == 10
\* The slider values tried: both ends, the default and one above the minimum.
TopChoices == {TopMin, TopMin + 1, TopDefault, TopMax}

\* The keys of a groupby, ascending (groupby sorts its keys).
RECURSIVE SortedKeys(_)
SortedKeys(S) ==
    IF S = {} THEN <<>> ELSE <<SetMin(S)>> \o SortedKeys(S \ {SetMin(S)})

\* groupby('Dept')['Weekly_Sales'].sum().reset_index(): rows (Dept, Weekly_Sales)
\* in ascending Dept order.
DeptTotals(rows) ==
    LET sums == GroupBySum(rows, "Dept")
        keys == SortedKeys(DOMAIN sums)
    IN  [i \in DOMAIN keys |-> [Dept |-> keys[i], Weekly_Sales |-> sums[keys[i]]]]

\* sort_values(col, ascending=False) with the default kind='quicksort', which is
\* not a stable sort: every descending arrangement of the rows is a possible
\* result, rows with equal values in any order.  geq[a][b]: the value of row a
\* in the sort column is at least that of row b.
SortValuesDesc(frame, geq) ==
    {[i \in DOMAIN frame |-> frame[p[i]]] : p \in
        {q \in Permutations(DOMAIN frame) :
            \A i, j \in DOMAIN frame : i < j => geq[q[i]][q[j]]}}

SalesGeq(frame) ==
    [a \in DOMAIN frame |-> [b \in DOMAIN frame |->
        frame[a].Weekly_Sales >= frame[b].Weekly_Sales]]

\* .head(n)
HeadRows(frame, n) == SubSeq(frame, 1, IF n < Len(frame) THEN n ELSE Len(frame))

TopDepartments(s) ==
    /\ pc[s] = "top"
    /\ \E top_n \in TopChoices :
       \E sorted \in SortValuesDesc(DeptTotals(df[s].rows),
                                    SalesGeq(DeptTotals(df[s].rows))) :
          out' = [out EXCEPT ![s] =
                    [kind |-> "chart", name |-> "fig_top_depts", top_n |-> top_n,
                     view |-> df[s].rows,
                     dept_sales |-> HeadRows(sorted, top_n)]]
    /\ pc' = [pc EXCEPT ![s] = "fuel"]
    /\ UNCHANGED <<file, cache, lock, fileReads, buf, df, date_range,
                   holiday_filter, df_filtered>>

\* ------------------------------- tab 2: average sales by fuel / temperature
\* pd.cut(x, bins=5) and pd.cut(x, bins=6)
FuelBinCount == 5
TempBinCount == 6

Abs(x) == IF x < 0 THEN -x ELSE x

\* pd.cut with an integer bins: the nbins + 1 edges, equal width over
\* [min, max], the first edge lowered by 0.1% of the range; a constant column
\* is widened by 0.1% of its value (by 0.001 when it is 0) on both sides.
\* Edges are scaled by 1000 * nbins to stay integers.  An empty column has
\* no edges (pd.cut raises ValueError).
CutEdges(values, nbins) ==
    IF values = <<>> THEN <<>>
    ELSE
    LET mn == SetMin(Range(values))
        mx == SetMax(Range(values))
        S  == 1000 * nbins
        lo == IF mn # 0 THEN S * mn - nbins * Abs(mn) ELSE -nbins
        hi == IF mx # 0 THEN S * mx + nbins * Abs(mx) ELSE nbins
    IN  IF mn = mx
        THEN [i \in 1..(nbins + 1) |-> lo + (i - 1) * ((hi - lo) \div nbins)]
        ELSE [i \in 1..(nbins + 1) |->
                IF i = 1 THEN S * mn - nbins * (mx - mn)
                ELSE S * mn + (i - 1) * 1000 * (mx - mn)]

\* The bin of value v: the interval (edges[i], edges[i+1]] holding it, as the
\* pair of its scaled bounds; NaN when no interval holds v.
BinOf(v, edges, nbins) ==
    LET hit == {i \in 1..(Len(edges) - 1) :
                  edges[i] < 1000 * nbins * v /\ 1000 * nbins * v <= edges[i + 1]}
    IN  IF hit = {} THEN NaN ELSE <<edges[SetMin(hit)], edges[SetMin(hit) + 1]>>

\* pd.cut's default precision: the decimals its labels keep.
BasePrecision == 3

RECURSIVE Pow10(_)
Pow10(n) == IF n = 0 THEN 1 ELSE 10 * Pow10(n - 1)

\* n / d for n >= 0, d > 0, rounded to the nearest integer, halves to even
\* (np.around).
RoundHalfEven(n, d) ==
    LET q == n \div d
        r == n % d
    IN  IF 2 * r < d THEN q
        ELSE IF 2 * r > d THEN q + 1
        ELSE IF q % 2 = 0 THEN q ELSE q + 1

\* A decimal number <<m, digits>> is m / 10^digits; trailing zeros dropped.
RECURSIVE Normalize(_)
Normalize(dec) ==
    IF dec[2] > 0 /\ dec[1] % 10 = 0
    THEN Normalize(<<dec[1] \div 10, dec[2] - 1>>)
    ELSE dec

\* pandas' _round_frac(x, precision) for x = e / scale: 0 stays 0; a number
\* with an integer part keeps `precision` decimals; a number below 1 keeps
\* `precision` significant digits.
RoundFrac(e, scale, precision) ==
    LET a      == Abs(e)
        zeros  == CHOOSE z \in 0..4 :
                     /\ a * Pow10(z + 1) >= scale
                     /\ z > 0 => a * Pow10(z) < scale
        digits == IF a >= scale THEN precision ELSE zeros + precision
        m      == (a \div scale) * Pow10(digits)
                     + RoundHalfEven((a % scale) * Pow10(digits), scale)
    IN  IF e = 0 THEN <<0, 0>>
        ELSE Normalize(<<IF e < 0 THEN -m ELSE m, digits>>)

\* pandas' _infer_precision: the first precision from the default on at which
\* the rounded edges are all different (the default when none is found; the
\* search stops where the integers of the model end).
InferPrecision(edges, scale) ==
    LET ok == {p \in BasePrecision..(BasePrecision + 2) :
                 Cardinality({RoundFrac(edges[i], scale, p) : i \in DOMAIN edges})
                     = Len(edges)}
    IN  IF ok = {} THEN BasePrecision ELSE SetMin(ok)

DigitChars == <<"0", "1", "2", "3", "4", "5", "6", "7", "8", "9">>

\* The decimal digits of n >= 0, as a sequence of characters.
RECURSIVE DigitsOf(_)
DigitsOf(n) ==
    IF n < 10 THEN <<DigitChars[n + 1]>>
    ELSE DigitsOf(n \div 10) \o <<DigitChars[(n % 10) + 1]>>

\* repr of a float holding the decimal number: sign, integer part, point and
\* the decimals, at least one.  A string is a sequence of characters.
FloatRepr(dec) ==
    LET a     == Abs(dec[1])
        whole == a \div Pow10(dec[2])
        frac  == a % Pow10(dec[2])
    IN  (IF dec[1] < 0 THEN <<"-">> ELSE <<>>)
        \o DigitsOf(whole) \o <<".">>
        \o (IF dec[2] = 0 THEN <<"0">>
            ELSE [i \in 1..dec[2] |->
                    DigitChars[((frac \div Pow10(dec[2] - i)) % 10) + 1]])

\* str of a right-closed interval
IntervalStr(lo, hi) ==
    <<"(">> \o FloatRepr(lo) \o <<",", " ">> \o FloatRepr(hi) \o <<"]">>

\* The labels of pd.cut's categories, one per bin, from the rounded edges.
CutLabels(edges, nbins) ==
    LET p      == InferPrecision(edges, 1000 * nbins)
        breaks == [i \in DOMAIN edges |-> RoundFrac(edges[i], 1000 * nbins, p)]
    IN  [i \in 1..(Len(edges) - 1) |-> IntervalStr(breaks[i], breaks[i + 1])]

\* astype(str) of one value of the categorical: its label, "nan" for NaN.
BinStr(bin, edges, labels) ==
    IF IsNaN(bin) THEN <<"n", "a", "n">>
    ELSE labels[CHOOSE i \in 1..(Len(edges) - 1) : edges[i] = bin[1]]

\* The code point of a character of these strings.
Ord(c) ==
    CASE c = " " -> 32 [] c = "(" -> 40 [] c = "," -> 44 [] c = "-" -> 45
      [] c = "." -> 46 [] c = "0" -> 48 [] c = "1" -> 49 [] c = "2" -> 50
      [] c = "3" -> 51 [] c = "4" -> 52 [] c = "5" -> 53 [] c = "6" -> 54
      [] c = "7" -> 55 [] c = "8" -> 56 [] c = "9" -> 57 [] c = "]" -> 93
      [] c = "a" -> 97 [] c = "n" -> 110

\* a < b for Python strings: by code point at the first difference, a proper
\* prefix first.
StrLess(a, b) ==
    \E k \in 1..(Len(a) + 1) :
        /\ k <= Len(b)
        /\ \A i \in 1..(k - 1) : a[i] = b[i]
        /\ k <= Len(a) => Ord(a[k]) < Ord(b[k])

\* The strings of a set in ascending order (the key order of a groupby).
RECURSIVE SortedStrs(_)
SortedStrs(S) ==
    IF S = {} THEN <<>>
    ELSE LET first == CHOOSE x \in S : \A y \in S \ {x} : StrLess(x, y)
         IN  <<first>> \o SortedStrs(S \ {first})

\* df.groupby(bin_column)['Weekly_Sales'].mean().reset_index(): one entry per
\* label that occurs, in the order of the labels as strings.
GroupByMean(rows, labels) ==
    LET keys == SortedStrs(Range(labels))
    IN  [k \in DOMAIN keys |->
            [Bin |-> keys[k],
             Average_Weekly_Sales |->
                 SeriesMean(Column(SelectSeq([i \in DOMAIN rows |->
                                                  [Weekly_Sales |-> rows[i].Weekly_Sales,
                                                   label |-> labels[i]]],
                                             LAMBDA r : r.label = keys[k]),
                                   "Weekly_Sales"))]]

\* The sidebar's filtered view in place of df.
BinSourceFiltered(s) == df_filtered[s]

\* The frame whose column pd.cut bins (and so whose min and max set the edges).
BinSource(s) == df[s].rows

\* fuel_bins = pd.cut(df['Fuel_Price'], bins=5); df['Fuel_Bin'] = fuel_bins.astype(str);
\* fuel_sales = df.groupby('Fuel_Bin')['Weekly_Sales'].mean().reset_index()
FuelChart(s) ==
    /\ pc[s] = "fuel"
    /\ LET edges == CutEdges(Column(BinSource(s), "Fuel_Price"), FuelBinCount)
           bins  == [i \in DOMAIN df[s].rows |->
                        BinOf(df[s].rows[i].Fuel_Price, edges, FuelBinCount)]
           labels == CutLabels(edges, FuelBinCount)
           strs  == [i \in DOMAIN df[s].rows |-> BinStr(bins[i], edges, labels)]
       IN  IF edges = <<>>
           THEN /\ out' = [out EXCEPT ![s] = [kind |-> "exception", name |-> "ValueError"]]
                /\ pc' = [pc EXCEPT ![s] = "done"]
                /\ UNCHANGED df
           ELSE /\ df' = [df EXCEPT ![s] = [@ EXCEPT !.cols = @ \cup {"Fuel_Bin"},
                                                     !.Fuel_Bin = strs]]
                /\ out' = [out EXCEPT ![s] =
                             [kind |-> "chart", name |-> "fig_fuel_bar",
                              view |-> df[s].rows, edges |-> edges, bins |-> bins,
                              fuel_sales |-> GroupByMean(df[s].rows, strs)]]
                /\ pc' = [pc EXCEPT ![s] = "temp"]
    /\ UNCHANGED <<file, cache, lock, fileReads, buf, date_range,
                   holiday_filter, df_filtered>>

\* temp_bins = pd.cut(df['Temperature'], bins=6); df['Temp_Bin'] = temp_bins.astype(str);
\* temp_sales = df.groupby('Temp_Bin')['Weekly_Sales'].mean().reset_index()
TempChart(s) ==
    /\ pc[s] = "temp"
    /\ LET edges == CutEdges(Column(BinSource(s), "Temperature"), TempBinCount)
           bins  == [i \in DOMAIN df[s].rows |->
                        BinOf(df[s].rows[i].Temperature, edges, TempBinCount)]
           labels == CutLabels(edges, TempBinCount)
           strs  == [i \in DOMAIN df[s].rows |-> BinStr(bins[i], edges, labels)]
       IN  IF edges = <<>>
           THEN /\ out' = [out EXCEPT ![s] = [kind |-> "exception", name |-> "ValueError"]]
                /\ pc' = [pc EXCEPT ![s] = "done"]
                /\ UNCHANGED df
           ELSE /\ df' = [df EXCEPT ![s] = [@ EXCEPT !.cols = @ \cup {"Temp_Bin"},
                                                     !.Temp_Bin = strs]]
                /\ out' = [out EXCEPT ![s] =
                             [kind |-> "chart", name |-> "fig_temp_bar",
                              view |-> df[s].rows, edges |-> edges, bins |-> bins,
                              temp_sales |-> GroupByMean(df[s].rows, strs)]]
                /\ pc' = [pc EXCEPT ![s] = "holidays"]
    /\ UNCHANGED <<file, cache, lock, fileReads, buf, date_range,
                   holiday_filter, df_filtered>>

\* ----------------------------------- tab 3: sales by specific holiday
\* frame.loc[mask, 'Holiday_Type'] = label
AssignWhere(col, mask, label) ==
    [i \in DOMAIN col |-> IF mask[i] THEN label ELSE col[i]]

\* df_holidays['Holiday_Type']: 'None', then the four .loc assignments in turn.
HolidayTypeColumn(rows) ==
    LET c0 == [i \in DOMAIN rows |-> "None"]
        c1 == AssignWhere(c0, Column(rows, "IsSuperBowl"), "Super Bowl")
        c2 == AssignWhere(c1, Column(rows, "IsLaborDay"), "Labor Day")
        c3 == AssignWhere(c2, Column(rows, "IsThanksgiving"), "Thanksgiving")
    IN  AssignWhere(c3, Column(rows, "IsChristmas"), "Christmas")

\* fig_specific is drawn from the rows of df_holidays whose type is not 'None'.
HolidayChart(s) ==
    /\ pc[s] = "holidays"
    /\ out' = [out EXCEPT ![s] =
                 [kind |-> "chart", name |-> "fig_specific", view |-> df[s].rows,
                  Holiday_Type |-> HolidayTypeColumn(df[s].rows)]]
    /\ pc' = [pc EXCEPT ![s] = "windows"]
    /\ UNCHANGED <<file, cache, lock, fileReads, buf, df, date_range,
                   holiday_filter, df_filtered>>

\* ------------------------------ tab 3: two weeks before and after holidays
\* pd.Timedelta(weeks=2), in days
WindowRadius == 14

SuperBowlDates == <<42, 406, 770, 1134>>      \* 2010-02-12 2011-02-11 2012-02-10 2013-02-08
LaborDayDates == <<252, 616, 980, 1344>>      \* 2010-09-10 2011-09-09 2012-09-07 2013-09-06
ThanksgivingDates == <<329, 693, 1057, 1428>> \* 2010-11-26 2011-11-25 2012-11-23 2013-11-29
ChristmasDates == <<364, 728, 1092, 1456>>    \* 2010-12-31 2011-12-30 2012-12-28 2013-12-27

\* Division that rounds toward zero.
TruncDiv(a, b) == IF a < 0 THEN -((-a) \div b) ELSE a \div b

\* Python's // on integers rounds toward minus infinity, as \div does.
FloorDiv(a, b) == a \div b

\* One window: the rows within the radius of the anchor, in table order, each
\* with Event and Delta_Week.  idx (the row's index label) and anchor (the
\* window it was selected for) identify the entry.
HolidayWindow(rows, date, name) ==
    LET idxs == SelectSeq([i \in DOMAIN rows |-> i],
                          LAMBDA i : /\ rows[i].Date >= date - WindowRadius
                                     /\ rows[i].Date <= date + WindowRadius)
    IN  [k \in DOMAIN idxs |->
            [idx |-> idxs[k], Date |-> rows[idxs[k]].Date,
             Weekly_Sales |-> rows[idxs[k]].Weekly_Sales,
             Event |-> name, anchor |-> date,
             Delta_Week |-> FloorDiv(rows[idxs[k]].Date - date, 7)]]

\* get_holiday_windows: the windows of the anchors, concatenated in order.
RECURSIVE get_holiday_windows(_, _, _)
get_holiday_windows(rows, holiday_dates, name) ==
    IF holiday_dates = <<>> THEN <<>>
    ELSE HolidayWindow(rows, Head(holiday_dates), name)
         \o get_holiday_windows(rows, Tail(holiday_dates), name)

CombinedTrends(rows) ==
    get_holiday_windows(rows, SuperBowlDates, "Super Bowl")
    \o get_holiday_windows(rows, LaborDayDates, "Labor Day")
    \o get_holiday_windows(rows, ThanksgivingDates, "Thanksgiving")
    \o get_holiday_windows(rows, ChristmasDates, "Christmas")

\* The event names in the order of a groupby's keys (ascending strings).
EventOrder == <<"Christmas", "Labor Day", "Super Bowl", "Thanksgiving">>

\* combined_trends.groupby(['Delta_Week', 'Event'])['Weekly_Sales'].mean()
\* .reset_index(): one entry per (Delta_Week, Event) that occurs, ascending by
\* Delta_Week, then Event, with the mean of the entries of the group.
TrendGroups(ct) ==
    LET weeks  == SortedKeys({ct[k].Delta_Week : k \in DOMAIN ct})
        keys   == [n \in 1..(Len(weeks) * Len(EventOrder)) |->
                      [Delta_Week |-> weeks[((n - 1) \div Len(EventOrder)) + 1],
                       Event |-> EventOrder[((n - 1) % Len(EventOrder)) + 1]]]
        Group(key) == SelectSeq(ct, LAMBDA e : /\ e.Delta_Week = key.Delta_Week
                                               /\ e.Event = key.Event)
        present == SelectSeq(keys, LAMBDA key : Group(key) # <<>>)
    IN  [g \in DOMAIN present |->
            [Delta_Week |-> present[g].Delta_Week, Event |-> present[g].Event,
             Weekly_Sales |-> SeriesMean(Column(Group(present[g]), "Weekly_Sales"))]]

TrendChart(s) ==
    /\ pc[s] = "windows"
    /\ out' = [out EXCEPT ![s] =
                 [kind |-> "chart", name |-> "fig_trend", view |-> df[s].rows,
                  combined_trends |-> CombinedTrends(df[s].rows),
                  trend_chart |-> TrendGroups(CombinedTrends(df[s].rows))]]
    /\ pc' = [pc EXCEPT ![s] = "lift"]
    /\ UNCHANGED <<file, cache, lock, fileReads, buf, df, date_range,
                   holiday_filter, df_filtered>>

\* --------------------------------------------------- tab 3: holiday lift
get_holiday_type(row) ==
    IF row.IsSuperBowl THEN "Super Bowl"
    ELSE IF row.IsLaborDay THEN "Labor Day"
    ELSE IF row.IsThanksgiving THEN "Thanksgiving"
    ELSE IF row.IsChristmas THEN "Christmas"
    ELSE "None"

\* Series.unique(): the values in order of first appearance.
RECURSIVE Unique(_)
Unique(q) ==
    IF q = <<>> THEN <<>>
    ELSE LET rest == Unique(SubSeq(q, 1, Len(q) - 1))
         IN  IF q[Len(q)] \in Range(rest) THEN rest ELSE Append(rest, q[Len(q)])

\* Only the pd.isna(x) test.
NoBaselineNaNOnly(avg) == IsNaN(avg)

\* "not x or pd.isna(x)": zero (a mean is zero when its sum is) or NaN.
NoBaseline(avg) == IF IsNaN(avg) THEN TRUE ELSE avg[1] = 0

\* ((h - n) / n) * 100 for the means h = h1/h2 and n = n1/n2, as a quotient
\* with a positive denominator.
LiftPercent(h, n) ==
    LET num == (h[1] * n[2] - n[1] * h[2]) * 100
        den == h[2] * n[1]
    IN  IF den < 0 THEN <<-num, -den>> ELSE <<num, den>>

\* The loop over holiday_types: one dict per holiday type present.
LiftResults(rows, types) ==
    LET TypeSales(ht) ==
            Column(SelectSeq(rows, LAMBDA r : r.Holiday_Type = ht), "Weekly_Sales")
        holiday_types == SelectSeq(Unique(types), LAMBDA ht : ht # "None")
    IN  [k \in DOMAIN holiday_types |->
            LET holiday_sales_avg == SeriesMean(TypeSales(holiday_types[k]))
                non_holiday_sales_avg == SeriesMean(TypeSales("None"))
            IN  [Holiday_Type |-> holiday_types[k],
                 Holiday_Week_Avg_Sales |-> holiday_sales_avg,
                 Non_Holiday_Week_Avg_Sales |-> non_holiday_sales_avg,
                 Sales_Lift_Percent |->
                    IF NoBaseline(non_holiday_sales_avg) THEN NaN
                    ELSE LiftPercent(holiday_sales_avg, non_holiday_sales_avg)]]

\* DataFrame.dropna(): the rows with no missing value.
DropNa(frame) ==
    SelectSeq(frame, LAMBDA r : /\ ~IsNaN(r.Holiday_Week_Avg_Sales)
                                /\ ~IsNaN(r.Non_Holiday_Week_Avg_Sales)
                                /\ ~IsNaN(r.Sales_Lift_Percent))

\* a >= b for quotients with positive denominators
LiftGeq(frame) ==
    [a \in DOMAIN frame |-> [b \in DOMAIN frame |->
        frame[a].Sales_Lift_Percent[1] * frame[b].Sales_Lift_Percent[2]
            >= frame[b].Sales_Lift_Percent[1] * frame[a].Sales_Lift_Percent[2]]]

\* df_filtered['Holiday_Type'] = df_filtered.apply(get_holiday_type, axis=1)
WithHolidayType(rows) ==
    [i \in DOMAIN rows |-> rows[i] @@ [Holiday_Type |-> get_holiday_type(rows[i])]]

LiftTable(typed) == DropNa(LiftResults(typed, Column(typed, "Holiday_Type")))

\* df_filtered is rebound to the rows of the selected store and department.
LiftChart(s) ==
    /\ pc[s] = "lift"
    /\ \E store \in StoreOptions(df[s].rows), dept \in DeptOptions(df[s].rows) :
       LET selected == WithHolidayType(
                           SelectSeq(df[s].rows, LAMBDA r : r.Store = store /\ r.Dept = dept))
           df_lift  == LiftTable(selected)
       IN  /\ df_filtered' = [df_filtered EXCEPT ![s] = selected]
           /\ IF df_lift = <<>>
              THEN out' = [out EXCEPT ![s] =
                             [kind |-> "info", name |-> "df_lift", view |-> selected,
                              store |-> store, dept |-> dept, df_lift |-> df_lift,
                              text |-> "No holiday data available for this store and department."]]
              ELSE \E sorted \in SortValuesDesc(df_lift, LiftGeq(df_lift)) :
                      out' = [out EXCEPT ![s] =
                                [kind |-> "chart", name |-> "fig_lift", view |-> selected,
                                 store |-> store, dept |-> dept, df_lift |-> sorted]]
    /\ pc' = [pc EXCEPT ![s] = "done"]
    /\ UNCHANGED <<file, cache, lock, fileReads, buf, df, date_range, holiday_filter>>

\* A widget interaction reruns the script from the top.
Rerun(s) ==
    /\ pc[s] = "done"
    /\ pc' = [pc EXCEPT ![s] = "load"]
    /\ UNCHANGED <<file, cache, lock, fileReads, buf, df, date_range,
                   holiday_filter, df_filtered, out>>

\* ------------------------------------------------------------ the program
Start(files) ==
    /\ file \in files
    /\ cache = Absent
    /\ lock = NoSession
    /\ fileReads = 0
    /\ buf = [s \in Sessions |-> <<>>]
    /\ pc = [s \in Sessions |-> "load"]
    /\ df = [s \in Sessions |-> Unbound]
    /\ date_range = [s \in Sessions |-> Unbound]
    /\ holiday_filter = [s \in Sessions |-> Unbound]
    /\ df_filtered = [s \in Sessions |-> Unbound]
    /\ out = [s \in Sessions |-> NoOutput]

Load(s) ==
    \/ LoadLookup(s)
    \/ LoadAcquire(s)
    \/ LoadRecheck(s)
    \/ ReadRow(s)
    \/ LoadStore(s)

Charts(s) ==
    \/ KpiCards(s)
    \/ WeeklyChart(s)
    \/ MonthlyChart(s)
    \/ MonthlyTrend(s)
    \/ TopDepartments(s)
    \/ FuelChart(s)
    \/ TempChart(s)
    \/ HolidayChart(s)
    \/ TrendChart(s)
    \/ LiftChart(s)
    \/ Rerun(s)

\* ---------------------------------------------------------- the data sets
\* A row that differs from PlainRow only in the named columns.
PlainRow == Row(1, 1, 1, 10, FALSE, FALSE, FALSE, FALSE, FALSE, 3, 60, "January")

\* Two sessions of one server process: a non-holiday and a holiday week.
MaxSharedRows == 2
SharedRows ==
    {PlainRow,
     [PlainRow EXCEPT !.Weekly_Sales = 30, !.IsHoliday_x = TRUE, !.IsSuperBowl = TRUE,
                      !.Fuel_Price = 4, !.Temperature = 70, !.Month_Name = "February"]}
SharedFiles == SeqsUpTo(SharedRows, MaxSharedRows) \ {<<>>}

\* Filtering: dates, holiday flags and (store, department) pairs vary.
MaxFilterRows == 2
FilterRows ==
    {[PlainRow EXCEPT !.Date = d, !.IsHoliday_x = h, !.Store = sd[1], !.Dept = sd[2]] :
        d \in FilterDates, h \in BOOLEAN, sd \in {<<1, 1>>, <<1, 2>>, <<2, 1>>}}
FilterFiles == SeqsUpTo(FilterRows, MaxFilterRows)

\* Month summary: month names, sales and holiday flags vary.
MaxMonthRows == 3
MonthRows ==
    {[PlainRow EXCEPT !.Month_Name = m, !.Weekly_Sales = w, !.IsHoliday_x = h] :
        m \in {"March", "December"}, w \in {10, 20}, h \in BOOLEAN}
MonthFiles == SeqsUpTo(MonthRows, MaxMonthRows)

\* Top departments: one row per department 1..NumDepts plus a second row of
\* department 1, so equal totals and summed totals both occur.
NumDepts == 6
TopFiles ==
    {<<[PlainRow EXCEPT !.Dept = 1, !.Weekly_Sales = 10]>>
       \o [d \in 1..NumDepts |-> [PlainRow EXCEPT !.Dept = d, !.Weekly_Sales = w[d]]] :
        w \in [1..NumDepts -> {90, 100}]}

\* Holiday windows: a row up to WindowSlack days outside the window of the
\* first Super Bowl or the last Christmas anchor, alone or followed by a row
\* two weeks before the first Super Bowl anchor or two weeks after the 2013
\* Thanksgiving anchor.
WindowSlack == 1
WindowDates ==
    {a + k : a \in {SuperBowlDates[1], ChristmasDates[4]},
             k \in (-(WindowRadius + WindowSlack))..(WindowRadius + WindowSlack)}
WindowFiles ==
    {<<[PlainRow EXCEPT !.Date = d]>> : d \in WindowDates}
    \cup {<<[PlainRow EXCEPT !.Date = d], [PlainRow EXCEPT !.Date = e, !.Weekly_Sales = 20]>> :
            d \in WindowDates,
            e \in {SuperBowlDates[1] - WindowRadius, ThanksgivingDates[4] + WindowRadius}}

\* Holiday lift: holiday flags (none, one, two at once) and sales (negative,
\* zero, positive) vary in store 1, department 1; the last row is another
\* store and department.
MaxLiftRows == 3
LiftRows ==
    {[PlainRow EXCEPT !.IsSuperBowl = f[1], !.IsChristmas = f[2], !.Weekly_Sales = w] :
        f \in {<<FALSE, FALSE>>, <<TRUE, FALSE>>, <<FALSE, TRUE>>}, w \in {-10, 0, 30}}
    \cup {[PlainRow EXCEPT !.IsSuperBowl = TRUE, !.IsChristmas = TRUE, !.Weekly_Sales = 20]}
LiftFiles ==
    {q \o <<[PlainRow EXCEPT !.Store = 2, !.Dept = 2, !.Weekly_Sales = 50]>> :
        q \in SeqsUpTo(LiftRows, MaxLiftRows)}

\* Binning: fuel price, temperature and holiday flags vary.
MaxBinRows == 3
BinRows ==
    {[PlainRow EXCEPT !.Fuel_Price = ft[1], !.Temperature = ft[2], !.IsHoliday_x = h] :
        ft \in {<<2, -10>>, <<4, 0>>, <<5, 90>>, <<0, 0>>}, h \in BOOLEAN}
BinFiles == SeqsUpTo(BinRows, MaxBinRows) \ {<<>>}

\* Attribute ranges: negative values, values with one, two and three digits
\* before the point, and sales that differ within a bin.
MaxRangeRows == 3
RangeRows ==
    {[PlainRow EXCEPT !.Fuel_Price = ft[1], !.Temperature = ft[2], !.Weekly_Sales = w] :
        ft \in {<<2, -20>>, <<4, -10>>, <<8, 5>>, <<9, 30>>, <<12, 110>>}, w \in {10, 20}}
RangeFiles == SeqsUpTo(RangeRows, MaxRangeRows) \ {<<>>}

\* ------------------------------------------------------ specifications
\* A browser session: the script, with the sidebar as the browser offers it.
Step(s) == Load(s) \/ SidebarUI(s) \/ Charts(s)

\* The script driven with any date pair (the widget's value set by a test).
StepAny(s) == Load(s) \/ SidebarAny(s) \/ Charts(s)

\* Sessions of one server process, running concurrently.
Init == Start(SharedFiles)
Next == \E s \in Sessions : Step(s)
Spec == Init /\ [][Next]_vars

\* One session, over each data set.
NextOne == Step("s1")
NextAny == StepAny("s1")

InitFilter == Start(FilterFiles)
SpecFilter == InitFilter /\ [][NextAny]_vars

InitMonth == Start(MonthFiles)
SpecMonth == InitMonth /\ [][NextOne]_vars

InitTop == Start(TopFiles)
SpecTop == InitTop /\ [][NextOne]_vars

InitWindow == Start(WindowFiles)
SpecWindow == InitWindow /\ [][NextOne]_vars

InitLift == Start(LiftFiles)
SpecLift == InitLift /\ [][NextOne]_vars

InitBin == Start(BinFiles)
SpecBin == InitBin /\ [][NextOne]_vars

InitRange == Start(RangeFiles)
SpecRange == InitRange /\ [][NextOne]_vars

\* ------------------------------------------------------------ properties
\* The sum of Weekly_Sales over the rows of view with index in I.
RECURSIVE SalesOver(_, _)
SalesOver(view, I) ==
    IF I = {} THEN 0
    ELSE LET i == CHOOSE i \in I : TRUE
         IN  view[i].Weekly_Sales + SalesOver(view, I \ {i})

\* view holds exactly the rows of rows with index in I, in table order.
IsSelection(view, rows, I) ==
    /\ Len(view) = Cardinality(I)
    /\ \A i \in I : view[Cardinality({j \in I : j <= i})] = rows[i]

InDateRange(r, dr) == dr[1] <= r.Date /\ r.Date <= dr[2]

HolidayModeOk(r, hf) ==
    \/ hf = "All"
    \/ hf = "Yes" /\ r.IsHoliday_x
    \/ hf = "No" /\ ~r.IsHoliday_x

\* C1: the sidebar filter keeps a row iff its Date is in [date_start, date_end]
\* and its IsHoliday_x agrees with the holiday mode; the per-chart filter also
\* requires the selected Store and Dept.  An inverted range or an empty table
\* gives an empty view; mode All over the full date span gives the input rows.
C1_FilterContract ==
    \A s \in Sessions :
        /\ pc[s] = "kpi" =>
              LET rows == df[s].rows
                  dr   == date_range[s]
                  hf   == holiday_filter[s]
              IN  /\ IsSelection(df_filtered[s], rows,
                                  {i \in DOMAIN rows :
                                      InDateRange(rows[i], dr) /\ HolidayModeOk(rows[i], hf)})
                  /\ dr[1] > dr[2] => df_filtered[s] = <<>>
                  /\ rows = <<>> => df_filtered[s] = <<>>
                  /\ (/\ hf = "All"
                      /\ \A i \in DOMAIN rows : dr[1] <= rows[i].Date /\ rows[i].Date <= dr[2])
                        => df_filtered[s] = rows
        /\ out[s].name = "fig_weekly" =>
              LET rows == df[s].rows
              IN  IsSelection(out[s].view, rows,
                              {i \in DOMAIN rows :
                                  /\ InDateRange(rows[i], date_range[s])
                                  /\ HolidayModeOk(rows[i], holiday_filter[s])
                                  /\ rows[i].Store = out[s].store
                                  /\ rows[i].Dept = out[s].dept})

\* The chart filter kept one of two rows under a holiday mode other than All.
C1_Witness ==
    \E s \in Sessions :
        /\ out[s].name = "fig_weekly"
        /\ holiday_filter[s] # "All"
        /\ Len(df[s].rows) = 2
        /\ Len(out[s].view) = 1

\* C2: over all interleavings of load_data() calls of reruns and of concurrent
\* sessions the file is read exactly once, every call returns the complete
\* table of the file, and the cache entry is never a partial table.
C2_LoadOnce ==
    /\ fileReads <= 1
    /\ cache # Absent => cache = Frame(file) /\ fileReads = 1
    /\ \A s \in Sessions : pc[s] = "sidebar" => df[s] = Frame(file) /\ fileReads = 1

\* One session has its table while another, which missed on its first lookup,
\* holds the compute lock with the entry already stored.
C2_Witness ==
    \E s, u \in Sessions :
        /\ s # u
        /\ pc[s] = "sidebar"
        /\ df[s] = Frame(file)
        /\ pc[u] = "locked"
        /\ cache # Absent

\* C3: the month summary has 12 entries in calendar order; a month with rows
\* carries the sum of exactly its rows, a month without rows the missing value.
C3_MonthSummary ==
    \A s \in Sessions :
        out[s].name \in {"fig_monthly", "fig_monthly_trend"} =>
            LET view == out[s].view
                ms   == out[s].monthly_sales
            IN  /\ Len(ms) = 12
                /\ \A i \in 1..12 :
                      LET I == {k \in DOMAIN view : view[k].Month_Name = monthly_order[i]}
                      IN  /\ i \in DOMAIN ms
                          /\ ms[i].Month = monthly_order[i]
                          /\ ms[i].Sales = IF I = {} THEN NaN ELSE <<SalesOver(view, I)>>

\* A filtered view whose two December rows are summed and which has no March row.
C3_Witness ==
    \E s \in Sessions :
        /\ out[s].name = "fig_monthly"
        /\ Len(out[s].view) = 2
        /\ Len(df[s].rows) = 3
        /\ out[s].monthly_sales[12].Sales = <<30>>
        /\ out[s].monthly_sales[3].Sales = NaN

Min2(a, b) == IF a < b THEN a ELSE b

\* C4: the top departments are min(n, number of departments) entries, sorted by
\* total descending, no excluded total above an included one, and equal totals
\* in group order (ascending Dept), also across the cut.
C4_TopNStable ==
    \A s \in Sessions :
        out[s].name = "fig_top_depts" =>
            LET view  == out[s].view
                res   == out[s].dept_sales
                Depts == {view[i].Dept : i \in DOMAIN view}
                Tot(d) == SalesOver(view, {i \in DOMAIN view : view[i].Dept = d})
                In    == {res[k].Dept : k \in DOMAIN res}
            IN  /\ Len(res) = Min2(out[s].top_n, Cardinality(Depts))
                /\ Cardinality(In) = Len(res)
                /\ In \subseteq Depts
                /\ \A k \in DOMAIN res : res[k].Weekly_Sales = Tot(res[k].Dept)
                /\ \A i, j \in DOMAIN res : i < j => Tot(res[i].Dept) >= Tot(res[j].Dept)
                /\ \A d \in Depts \ In : \A e \in In : Tot(d) <= Tot(e)
                /\ \A i, j \in DOMAIN res :
                      i < j /\ Tot(res[i].Dept) = Tot(res[j].Dept) => res[i].Dept < res[j].Dept
                /\ \A d \in Depts \ In : \A e \in In : Tot(d) = Tot(e) => e < d

AllAnchors ==
    Range(SuperBowlDates) \cup Range(LaborDayDates)
        \cup Range(ThanksgivingDates) \cup Range(ChristmasDates)

\* C5: a row is in an anchor's window iff its Date is within 14 days of the
\* anchor, both ends included, and its Delta_Week is the floor of the day
\* difference over 7: -2 at 14 days before, +2 at 14 days after, always in -2..2.
C5_WindowOffsets ==
    \A s \in Sessions :
        out[s].name = "fig_trend" =>
            LET rows == out[s].view
                ct   == out[s].combined_trends
            IN  /\ \A k \in DOMAIN ct :
                      LET days == ct[k].Date - ct[k].anchor
                      IN  /\ ct[k].anchor \in AllAnchors
                          /\ ct[k].idx \in DOMAIN rows
                          /\ rows[ct[k].idx].Date = ct[k].Date
                          /\ -14 <= days /\ days <= 14
                          /\ 7 * ct[k].Delta_Week <= days
                          /\ days < 7 * ct[k].Delta_Week + 7
                          /\ ct[k].Delta_Week \in -2..2
                          /\ days = -14 => ct[k].Delta_Week = -2
                          /\ days = 14 => ct[k].Delta_Week = 2
                /\ \A a \in AllAnchors : \A i \in DOMAIN rows :
                      (rows[i].Date - a \in -14..14)
                          <=> \E k \in DOMAIN ct : ct[k].idx = i /\ ct[k].anchor = a

\* Of two rows one is outside every window and the other lies 14 days before
\* its anchor, with Delta_Week -2.
C5_Witness ==
    \E s \in Sessions :
        /\ out[s].name = "fig_trend"
        /\ Len(out[s].view) = 2
        /\ Len(out[s].combined_trends) = 1
        /\ out[s].combined_trends[1].Date - out[s].combined_trends[1].anchor = -14
        /\ out[s].combined_trends[1].Delta_Week = -2

\* The priority order of the holiday flags.
HolidayPriority ==
    <<<<"IsSuperBowl", "Super Bowl">>, <<"IsLaborDay", "Labor Day">>,
      <<"IsThanksgiving", "Thanksgiving">>, <<"IsChristmas", "Christmas">>>>

\* The label of the first true flag in priority order, 'None' without one.
PriorityType(r) ==
    LET set == {k \in DOMAIN HolidayPriority : r[HolidayPriority[k][1]]}
    IN  IF set = {} THEN "None" ELSE HolidayPriority[SetMin(set)][2]

\* C6: without 'None' rows, or with a zero mean of the 'None' rows, the lift
\* result is empty; otherwise it has one entry per holiday type present, with
\* lift% = (avg[holiday] - avg[None]) / avg[None] * 100, sorted descending.
C6_LiftExclusion ==
    \A s \in Sessions :
        out[s].name \in {"df_lift", "fig_lift"} =>
            LET sel   == out[s].view
                Idx(ht) == {i \in DOMAIN sel : PriorityType(sel[i]) = ht}
                Types == {PriorityType(sel[i]) : i \in DOMAIN sel} \ {"None"}
                SN    == SalesOver(sel, Idx("None"))
                CN    == Cardinality(Idx("None"))
                L     == out[s].df_lift
            IN  IF Idx("None") = {} \/ SN = 0
                THEN L = <<>> /\ out[s].kind = "info"
                ELSE /\ Len(L) = Cardinality(Types)
                     /\ {L[k].Holiday_Type : k \in DOMAIN L} = Types
                     /\ \A k \in DOMAIN L :
                           LET l  == L[k].Sales_Lift_Percent
                               SH == SalesOver(sel, Idx(L[k].Holiday_Type))
                               CH == Cardinality(Idx(L[k].Holiday_Type))
                           IN  /\ Len(l) = 2
                               /\ l[2] > 0
                               /\ l[1] * (CH * SN) = 100 * (SH * CN - SN * CH) * l[2]
                     /\ \A k \in DOMAIN L : k + 1 \in DOMAIN L =>
                           L[k].Sales_Lift_Percent[1] * L[k + 1].Sales_Lift_Percent[2]
                             >= L[k + 1].Sales_Lift_Percent[1] * L[k].Sales_Lift_Percent[2]

\* A selection with a holiday row and 'None' rows whose mean is zero: no lift.
C6_Witness ==
    \E s \in Sessions :
        /\ out[s].name = "df_lift"
        /\ \E i \in DOMAIN out[s].view : PriorityType(out[s].view[i]) = "None"
        /\ \E i \in DOMAIN out[s].view : PriorityType(out[s].view[i]) # "None"

\* C7: the bin edges and every row's bin are those of the unfiltered table of
\* the file, whatever the sidebar selection.
C7_BinsFromBase ==
    \A s \in Sessions :
        /\ out[s].name = "fig_fuel_bar" =>
              LET edges == CutEdges(Column(file, "Fuel_Price"), FuelBinCount)
              IN  /\ out[s].edges = edges
                  /\ out[s].bins =
                        [i \in DOMAIN file |-> BinOf(file[i].Fuel_Price, edges, FuelBinCount)]
        /\ out[s].name = "fig_temp_bar" =>
              LET edges == CutEdges(Column(file, "Temperature"), TempBinCount)
              IN  /\ out[s].edges = edges
                  /\ out[s].bins =
                        [i \in DOMAIN file |-> BinOf(file[i].Temperature, edges, TempBinCount)]

\* The fuel chart under a sidebar selection whose view has other edges.
C7_Witness ==
    \E s \in Sessions :
        /\ out[s].name = "fig_fuel_bar"
        /\ pc[s] = "temp"
        /\ df_filtered[s] # <<>>
        /\ CutEdges(Column(df_filtered[s], "Fuel_Price"), FuelBinCount) # out[s].edges

\* C8: after load no step changes df: its rows and its columns stay those of
\* the file.
C8_BaseTableUnchanged ==
    \A s \in Sessions : df[s] # Unbound => df[s] = Frame(file)

\* C9: an element drawn from a view without rows is the explicit no-data notice.
C9_NoDataState ==
    \A s \in Sessions :
        (out[s].kind \in {"stat_cards", "chart", "info"} /\ out[s].view = <<>>)
            => out[s].kind = "info"

\* C10: both Holiday_Type columns carry, for every row, the label of the first
\* true flag in the order Super Bowl, Labor Day, Thanksgiving, Christmas.
C10_SameClassification ==
    \A s \in Sessions :
        /\ out[s].name = "fig_specific" =>
              \A i \in DOMAIN out[s].view :
                  out[s].Holiday_Type[i] = PriorityType(out[s].view[i])
        /\ out[s].name \in {"df_lift", "fig_lift"} =>
              \A i \in DOMAIN out[s].view :
                  out[s].view[i].Holiday_Type = PriorityType(out[s].view[i])

\* The label of each row's bin, from the chart's bins and edges.
RowLabels(bins, edges, nbins) ==
    LET labels == CutLabels(edges, nbins)
    IN  [i \in DOMAIN bins |-> BinStr(bins[i], edges, labels)]

\* The rows of a by-range summary entry: those whose bin is labelled as the entry.
EntryRows(entry, strs) == {i \in DOMAIN strs : strs[i] = entry.Bin}

\* The entries are the intervals that hold rows, each once, each with the mean
\* Weekly_Sales of exactly the rows of its interval.
RangeMeans(summary, rows, bins, strs) ==
    /\ \A i \in DOMAIN bins : \E k \in DOMAIN summary : i \in EntryRows(summary[k], strs)
    /\ \A j, k \in DOMAIN summary : j # k => summary[j].Bin # summary[k].Bin
    /\ \A k \in DOMAIN summary :
          LET members == EntryRows(summary[k], strs)
          IN  /\ members # {}
              /\ \A i, j \in members : bins[i] = bins[j]
              /\ \A i \in DOMAIN bins : bins[i] = bins[SetMin(members)] => i \in members
              /\ summary[k].Average_Weekly_Sales =
                     <<SumSeq([n \in DOMAIN rows |->
                                 IF n \in members THEN rows[n].Weekly_Sales ELSE 0]),
                       Cardinality(members)>>

\* The entries come in ascending order of their interval's lower bound.
RangeOrder(summary, bins, strs) ==
    \A j, k \in DOMAIN summary :
        j < k => bins[SetMin(EntryRows(summary[j], strs))][1]
                    < bins[SetMin(EntryRows(summary[k], strs))][1]

\* A by-range summary with both properties.
RangeSummary(summary, rows, bins, strs) ==
    RangeMeans(summary, rows, bins, strs) /\ RangeOrder(summary, bins, strs)

\* C11: the average-sales-by-range summaries (fuel price, 5 bins; temperature,
\* 6 bins) list their bins in ascending order of the interval's lower bound,
\* also for negative bounds and bounds with different numbers of digits, and
\* each entry carries the mean Weekly_Sales of exactly the rows of its interval.
C11_BinsAscending ==
    \A s \in Sessions :
        /\ (out[s].kind = "chart" /\ out[s].name = "fig_fuel_bar") =>
              RangeSummary(out[s].fuel_sales, out[s].view, out[s].bins,
                           RowLabels(out[s].bins, out[s].edges, FuelBinCount))
        /\ (out[s].kind = "chart" /\ out[s].name = "fig_temp_bar") =>
              RangeSummary(out[s].temp_sales, out[s].view, out[s].bins,
                           RowLabels(out[s].bins, out[s].edges, TempBinCount))

\* The anchors whose window holds the date.
AnchorsAround(date) ==
    {a \in AllAnchors : date >= a - WindowRadius /\ date <= a + WindowRadius}

\* The groups of trend_chart that an entry of combined_trends for row i feeds.
GroupsOfRow(i, ct, tc) ==
    {g \in DOMAIN tc : \E k \in DOMAIN ct : /\ ct[k].idx = i
                                            /\ ct[k].Delta_Week = tc[g].Delta_Week
                                            /\ ct[k].Event = tc[g].Event}

\* C12: with the sixteen anchor dates and the 2-week radius no date lies in
\* the windows of two anchors, so every row of the base table appears at most
\* once in combined_trends and feeds at most one (Delta_Week, Event) group.
C12_WindowsDisjoint ==
    \A s \in Sessions :
        out[s].name = "fig_trend" =>
            LET rows == out[s].view
                ct   == out[s].combined_trends
                tc   == out[s].trend_chart
            IN  /\ \A i \in DOMAIN rows : Cardinality(AnchorsAround(rows[i].Date)) <= 1
                /\ \A j, k \in DOMAIN ct : j # k => ct[j].idx # ct[k].idx
                /\ \A i \in DOMAIN rows : Cardinality(GroupsOfRow(i, ct, tc)) <= 1
====
